---- MODULE Spec2Model ----
(***************************************************************************)
(* Verification model of the Uniswap V3 front-end (Mori): the tick/price   *)
(* math of src/src/utils/math.ts, the liquidity-depth chart, the Swap form *)
(* and the AddLiquidity form.                                              *)
(*                                                                         *)
(* Numbers.  A JavaScript price is a double.  The model keeps a positive   *)
(* finite price by its logarithm to base 1.0001, in units of 1/SubTick of  *)
(* a tick: the price 1.0001^(lg/SubTick) is Pos(lg).  Zero, +Infinity and  *)
(* negative prices are kinds of their own.  In this representation         *)
(* Math.pow(1.0001, t) is Pos(t * SubTick), a multiplication by 10^e adds  *)
(* e * LOG10_TICKS * SubTick, and Math.log(x) / Math.log(1.0001) reads lg  *)
(* back; Math.round keeps its rounding (half-way cases towards +Infinity). *)
(* A tick handed to nearestUsableTick may be +-Infinity (the logarithm of  *)
(* an infinite or a zero price), so ticks on that path are ExtTick records.*)
(***************************************************************************)
EXTENDS Integers, Sequences, FiniteSets, Bags, TLC

(***************************************************************************)
(* Bounds of the model                                                     *)
(***************************************************************************)
\* sub-tick resolution of a price: units per tick
SubTick == 4
\* half-width of the window of sample ticks drawn around each tick of interest
Radius == 2
\* LiquidityDepthChart: the initialized ticks a bitmap word may hold, and the
\* initialized ticks of the pool in the words around the current tick
MaxTicksPerWord == 2
MaxTicks == 2

(***************************************************************************)
(* Program constants: src/src/utils/math.ts                                *)
(***************************************************************************)
SAFE_TICK_LOWER == -500000
SAFE_TICK_UPPER == 500000
MIN_TICK == -887272
MAX_TICK == 887272
\* log_1.0001(10) = 23027.002..., the tick distance of one decimal place
LOG10_TICKS == 23027
\* log_1.0001(Number.MAX_VALUE) and log_1.0001(Number.MIN_VALUE), in ticks:
\* beyond them a double is Infinity, respectively 0
MAX_VALUE_TICKS == 7098182
MIN_VALUE_TICKS == -7444772

\* FEE_TIERS[*].tickSpacing
TickSpacings == {1, 10, 60, 200}
\* Token.decimals of the configured tokens (WATN, ATN: 18; USDC: 6) and 0
DecimalsSet == {0, 6, 18}

(***************************************************************************)
(* JavaScript numbers                                                      *)
(***************************************************************************)
Pos(lg) == [k |-> "pos", lg |-> lg]
Zero == [k |-> "zero", lg |-> 0]
Infinity == [k |-> "inf", lg |-> 0]
Negative == [k |-> "neg", lg |-> 0]
Null == [k |-> "null", lg |-> 0]

Fin(n) == [k |-> "fin", n |-> n]
PosInfTick == [k |-> "pinf", n |-> 0]
NegInfTick == [k |-> "ninf", n |-> 0]

\* a positive magnitude as a double: overflow gives Infinity, underflow 0
Normalize(lg) ==
  IF lg > MAX_VALUE_TICKS * SubTick THEN Infinity
  ELSE IF lg < MIN_VALUE_TICKS * SubTick THEN Zero
  ELSE Pos(lg)

\* x * Math.pow(10, e), for the |e| <= 18 of token decimals
TimesPow10(x, e) ==
  IF x.k = "pos" THEN Normalize(x.lg + e * LOG10_TICKS * SubTick) ELSE x

\* Math.pow(1.0001, tick)
Pow10001(tick) == Normalize(tick * SubTick)

\* Math.round(num / den) for integers num and den > 0: floor(num/den + 1/2)
MathRound(num, den) == (2 * num + den) \div (2 * den)

Min2(a, b) == IF a < b THEN a ELSE b
Max2(a, b) == IF a > b THEN a ELSE b
Abs(a) == IF a < 0 THEN -a ELSE a

(***************************************************************************)
(* src/src/utils/math.ts                                                   *)
(***************************************************************************)
isTickSafeStrict(tick) == tick > SAFE_TICK_LOWER /\ tick < SAFE_TICK_UPPER
isTickSafe(tick) == tick >= SAFE_TICK_LOWER /\ tick <= SAFE_TICK_UPPER

tickToPrice(tick, decimals0, decimals1) ==
  IF ~isTickSafe(tick) THEN Null
  ELSE LET price == TimesPow10(Pow10001(tick), decimals0 - decimals1)
       IN  IF price.k # "pos" THEN Null ELSE price

\* the ticks for which tickToPrice evaluates Math.pow(1.0001, tick)
tickToPricePow(tick) == IF ~isTickSafe(tick) THEN {} ELSE {tick}

priceToTickFloor(price, decimals0, decimals1) ==
  LET adjustedPrice == TimesPow10(price, -(decimals0 - decimals1))
  IN  CASE adjustedPrice.k = "pos" -> Fin(adjustedPrice.lg \div SubTick)
        [] adjustedPrice.k = "zero" -> NegInfTick
        [] adjustedPrice.k = "inf" -> PosInfTick
priceToTick(price, decimals0, decimals1) ==
  LET adjustedPrice == TimesPow10(price, -(decimals0 - decimals1))
  IN  CASE adjustedPrice.k = "pos" -> Fin(MathRound(adjustedPrice.lg, SubTick))
        [] adjustedPrice.k = "zero" -> NegInfTick
        [] adjustedPrice.k = "inf" -> PosInfTick

nearestUsableTickNoClamp(tick, tickSpacing) ==
  CASE tick.k = "fin" -> MathRound(tick.n, tickSpacing) * tickSpacing
    [] tick.k = "pinf" -> MAX_TICK + tickSpacing
    [] tick.k = "ninf" -> MIN_TICK - tickSpacing
nearestUsableTick(tick, tickSpacing) ==
  CASE tick.k = "fin" ->
         LET rounded == MathRound(tick.n, tickSpacing) * tickSpacing
         IN  Max2(MIN_TICK, Min2(MAX_TICK, rounded))
    [] tick.k = "pinf" -> MAX_TICK
    [] tick.k = "ninf" -> MIN_TICK

(***************************************************************************)
(* State                                                                   *)
(***************************************************************************)
VARIABLES
  \* the pure functions of math.ts: the drawn inputs, the function applied
  \* last and its result
  tick, tickSpacing, price, decimals0, decimals1, fn, out,
  \* LiquidityDepthChart: the populated ticks of the pool on chain, and the
  \* component's tickData, isLoading and error state
  chainTicks, currentTick, tickData, isLoading, error,
  \* Liquidity page: a position read from the position manager, the slot0
  \* read of the pool, the component rendered last and the ticks t for which
  \* that render evaluated Math.pow(1.0001, t)
  position, fixedSlot0, view, powTicks,
  \* Swap: the form's state, the pending debounce timer, the quote requests
  \* in flight, the write of useWriteContract with its receipt, the allowance
  \* read, and whether the last completed quote request failed
  isConnected, tokenIn, tokenOut, amountIn, amountOut, isQuoting, quoteError,
  timerPending, quoteRequests, write, allowance, quoteFailed,
  \* AddLiquidity: the props, the form's state, the pools the factory knows,
  \* the tick of slot0, the write of useWriteContract and the allowances of
  \* the position manager
  address, existingPosition, fixedPool, tokenA, tokenB, amountA, amountB,
  selectedFee, minPrice, maxPrice, isFullRange, manageTab, removePercent,
  factoryPools, slot0Tick, liqWrite, liqAllowance,
  \* Liquidity page: the connected account, the balanceOf read, the positions
  \* and isLoading state, and the runs of fetchPositions still awaiting reads
  account, positionCount, positions, positionsLoading, fetches

mathVars == <<tick, tickSpacing, price, decimals0, decimals1, fn, out>>
chartVars == <<chainTicks, currentTick, tickData, isLoading, error>>
displayVars == <<position, fixedSlot0, view, powTicks>>
swapForm == <<tokenIn, tokenOut, amountIn, amountOut, isQuoting, quoteError>>
swapVars == <<isConnected, swapForm, timerPending, quoteRequests, write,
              allowance, quoteFailed>>
liqProps == <<address, existingPosition, fixedPool, factoryPools, slot0Tick>>
liqForm == <<tokenA, tokenB, amountA, amountB, selectedFee, minPrice, maxPrice,
             isFullRange, manageTab, removePercent>>
liqVars == <<liqProps, liqForm, liqWrite, liqAllowance>>
poolVars == <<account, positionCount, positions, positionsLoading, fetches>>
vars == <<mathVars, chartVars, displayVars, swapVars, liqVars, poolVars>>
notMath == <<chartVars, displayVars, swapVars, liqVars, poolVars>>
notChart == <<mathVars, displayVars, swapVars, liqVars, poolVars>>
notDisplay == <<mathVars, chartVars, swapVars, liqVars, poolVars>>
notSwap == <<mathVars, chartVars, displayVars, liqVars, poolVars>>
notLiq == <<mathVars, chartVars, displayVars, swapVars, poolVars>>
notPool == <<mathVars, chartVars, displayVars, swapVars, liqVars>>

\* the state of a component that is not mounted
MathIdle ==
  /\ tick = [k |-> "fin", n |-> 0] /\ tickSpacing = 60
  /\ price = [k |-> "zero", lg |-> 0]
  /\ decimals0 = 18 /\ decimals1 = 6
  /\ fn = "none" /\ out = [k |-> "null", lg |-> 0]
DisplayIdle ==
  /\ position = [tickLower |-> -60, tickUpper |-> 60]
  /\ fixedSlot0 = [loaded |-> FALSE, tick |-> 0]
  /\ view = "none" /\ powTicks = {}
\* useState(''): the empty amount string
Empty == -1
\* existingPosition = null
NoPosition == [tokenId |-> 0, fee |-> 0, tickLower |-> 0, tickUpper |-> 0,
               liquidity |-> 0]
\* useState(''): the empty price string
EmptyPrice == [k |-> "empty", lg |-> 0]
\* the position manager's useWriteContract before any writeContract call
NoLiqWrite == [status |-> "idle", functionName |-> "none", token |-> "none",
               amount |-> 0, token0 |-> "none", token1 |-> "none", fee |-> 0,
               tickLower |-> 0, tickUpper |-> 0, amount0Desired |-> 0,
               amount1Desired |-> 0, tokenId |-> 0, liquidity |-> 0,
               recipient |-> FALSE, calls |-> <<>>]
LiqIdle ==
  /\ address = FALSE
  /\ existingPosition = NoPosition /\ fixedPool = FALSE
  /\ tokenA = "WATN" /\ tokenB = "USDC.pol"
  /\ amountA = Empty /\ amountB = Empty
  /\ selectedFee = 3000
  /\ minPrice = EmptyPrice /\ maxPrice = EmptyPrice
  /\ isFullRange = FALSE
  /\ manageTab = "increase" /\ removePercent = 50
  /\ factoryPools = {} /\ slot0Tick = 0
  /\ liqWrite = NoLiqWrite
  /\ liqAllowance = [t \in {"WATN", "USDC.pol"} |-> 0]
\* useState<string | null>(null)
NoQuoteError == "null"
\* useWriteContract before any writeContract call
NoWrite == [status |-> "idle", functionName |-> "none", tokenIn |-> "none",
            tokenOut |-> "none", fee |-> 0, amountIn |-> 0, amountOut |-> 0,
            value |-> 0]
SwapIdle ==
  /\ isConnected = FALSE
  /\ tokenIn = "ATN" /\ tokenOut = "USDC.pol"
  /\ amountIn = Empty /\ amountOut = Empty
  /\ isQuoting = FALSE /\ quoteError = NoQuoteError
  /\ timerPending = FALSE /\ quoteRequests = EmptyBag
  /\ write = NoWrite
  /\ allowance = [t \in {"WATN", "USDC.pol"} |-> 0]
  /\ quoteFailed = FALSE
ChartIdle ==
  /\ chainTicks = <<>> /\ currentTick = 0 /\ tickData = <<>>
  /\ isLoading = TRUE /\ error = FALSE
\* useAccount without a connected wallet
NoAccount == "none"
\* data of a useReadContract that is disabled or has not answered
NoCount == -1
PoolIdle ==
  /\ account = NoAccount /\ positionCount = NoCount
  /\ positions = <<>> /\ positionsLoading = FALSE
  /\ fetches = {}

Near(c) == (c - Radius)..(c + Radius)

\* the ticks drawn: around the protocol bounds, the safe window and 0, far
\* outside the protocol range, and the two infinite ticks
TickInputs ==
  {Fin(t) : t \in Near(MIN_TICK) \cup Near(MAX_TICK) \cup Near(0)
                  \cup Near(SAFE_TICK_LOWER) \cup Near(SAFE_TICK_UPPER)
                  \cup Near(30) \cup Near(-30) \cup {-2 * MAX_TICK, 2 * MAX_TICK}}
    \cup {PosInfTick, NegInfTick}

\* the prices drawn, as offsets from 10^(decimals0 - decimals1): around the
\* safe window's two ends and around 1, at every sub-tick position
PriceOffsets ==
  UNION {((c - Radius) * SubTick)..((c + Radius) * SubTick) :
           c \in {SAFE_TICK_LOWER, 0, SAFE_TICK_UPPER}}

MathInit ==
  /\ tick \in TickInputs
  /\ tickSpacing \in TickSpacings
  /\ decimals0 \in DecimalsSet
  /\ decimals1 \in DecimalsSet
  /\ price \in {Pos((decimals0 - decimals1) * LOG10_TICKS * SubTick + o) :
                  o \in PriceOffsets} \cup {Zero, Infinity}
  /\ fn = "none"
  /\ out = Null
  /\ ChartIdle
  /\ DisplayIdle
  /\ SwapIdle
  /\ LiqIdle
  /\ PoolIdle

CallNearestUsableTick ==
  /\ fn = "none"
  /\ fn' = "nearestUsableTick"
  /\ out' = Fin(nearestUsableTick(tick, tickSpacing))
  /\ UNCHANGED <<tick, tickSpacing, price, decimals0, decimals1, notMath>>

CallTickToPrice ==
  /\ fn = "none"
  /\ tick.k = "fin"
  /\ fn' = "tickToPrice"
  /\ out' = tickToPrice(tick.n, decimals0, decimals1)
  /\ UNCHANGED <<tick, tickSpacing, price, decimals0, decimals1, notMath>>

\* tickToPrice(priceToTick(p, d0, d1), d0, d1)
CallPriceRoundTrip ==
  /\ fn = "none"
  /\ price.k = "pos"
  /\ fn' = "priceRoundTrip"
  /\ out' = tickToPrice(priceToTick(price, decimals0, decimals1).n,
                        decimals0, decimals1)
  /\ UNCHANGED <<tick, tickSpacing, price, decimals0, decimals1, notMath>>

\* priceToTick(tickToPrice(t, d0, d1), d0, d1)
CallTickRoundTrip ==
  /\ fn = "none"
  /\ tick.k = "fin"
  /\ isTickSafe(tick.n)
  /\ fn' = "tickRoundTrip"
  /\ out' = priceToTick(tickToPrice(tick.n, decimals0, decimals1),
                        decimals0, decimals1)
  /\ UNCHANGED <<tick, tickSpacing, price, decimals0, decimals1, notMath>>

MathNext ==
  \/ CallNearestUsableTick
  \/ CallTickToPrice
  \/ CallPriceRoundTrip
  \/ CallTickRoundTrip

SpecMath == MathInit /\ [][MathNext]_vars

(***************************************************************************)
(* LiquidityDepthChart: src/src/components/LiquidityDepthChart.tsx (five   *)
(* bitmap words, liquidityByTick) and src/unnamed/part_006 (three words,   *)
(* liquidityBars)                                                          *)
(***************************************************************************)
\* the liquidityNet values drawn for an initialized tick
NetValues == {-2, 3}

TickRec(t, net) == [tick |-> t, liquidityNet |-> net]

\* const ticksPerWord = 256 * tickSpacing
ticksPerWord(spacing) == 256 * spacing
\* Math.floor(currentTick / ticksPerWord)
currentWordIndex(ct, spacing) == ct \div ticksPerWord(spacing)
\* wordIndices, span words on each side of the current word
wordIndices(ct, spacing, span) ==
  [i \in 1..(2 * span + 1) |-> currentWordIndex(ct, spacing) - span - 1 + i]

\* allTicks.sort((a, b) => a.tick - b.tick): a stable sort by tick
RECURSIVE InsertByTick(_, _)
InsertByTick(rec, sorted) ==
  IF sorted = <<>> THEN <<rec>>
  ELSE IF rec.tick < Head(sorted).tick THEN <<rec>> \o sorted
  ELSE <<Head(sorted)>> \o InsertByTick(rec, Tail(sorted))
RECURSIVE SortByTick(_)
SortByTickNone(seq) == seq
SortByTick(seq) ==
  IF seq = <<>> THEN <<>>
  ELSE InsertByTick(seq[Len(seq)], SortByTick(SubSeq(seq, 1, Len(seq) - 1)))

\* the for loop over wordIndices: the answer of each word that could be read
\* is pushed on allTicks, a word whose read threw is skipped
RECURSIVE collectTicks(_, _, _)
collectTicks(chain, words, failed) ==
  IF words = <<>> THEN <<>>
  ELSE (IF Head(words) \in failed \/ Head(words) \notin DOMAIN chain
          THEN <<>> ELSE chain[Head(words)])
       \o collectTicks(chain, Tail(words), failed)

\* part_006, liquidityBars: currentLiquidity += tick.liquidityNet, and a bar
\* of currentLiquidity > 0n ? currentLiquidity : 0n per tick
RECURSIVE barsFrom(_, _)
barsFrom(data, currentLiquidity) ==
  IF data = <<>> THEN <<>>
  ELSE LET running == currentLiquidity + Head(data).liquidityNet
       IN  << [tick |-> Head(data).tick,
               liquidity |-> IF running > 0 THEN running ELSE 0] >>
           \o barsFrom(Tail(data), running)
RECURSIVE barsFromClamped(_, _)
barsFromClamped(data, currentLiquidity) ==
  IF data = <<>> THEN <<>>
  ELSE LET running == Max2(0, currentLiquidity + Head(data).liquidityNet)
       IN  << [tick |-> Head(data).tick, liquidity |-> running] >>
           \o barsFromClamped(Tail(data), running)
liquidityBarsClamped(data) == barsFromClamped(data, 0)
liquidityBars(data) == barsFrom(data, 0)

\* the ticks for which liquidityBars evaluates Math.pow(1.0001, tick.tick)
liquidityBarsPow(data) == {data[i].tick : i \in DOMAIN data}

\* LiquidityDepthChart.tsx, liquidityByTick: runningLiquidity +=
\* tick.liquidityNet, and liquidityMap.set(tick.tick, clamped) per tick
RECURSIVE mapFrom(_, _, _)
mapFrom(data, runningLiquidity, liquidityMap) ==
  IF data = <<>> THEN liquidityMap
  ELSE LET running == runningLiquidity + Head(data).liquidityNet
           entry == Head(data).tick :> (IF running > 0 THEN running ELSE 0)
       IN  mapFrom(Tail(data), running, entry @@ liquidityMap)
liquidityByTick(data) == mapFrom(data, 0, <<>>)

\* the ticks a bitmap word may hold: multiples of the tick spacing in it
WordTicks(w, spacing) ==
  {w * ticksPerWord(spacing) + k * spacing : k \in 1..MaxTicksPerWord}

\* the current ticks drawn for the chart's pool
ChartCurrentTicks == {-1, 100}

\* the answer of getPopulatedTicksInWord for word w of a pool whose
\* initialized ticks are the domain of net: the word's ticks, ascending or
\* descending
RECURSIVE AscendingRecs(_, _)
AscendingRecs(ticks, net) ==
  IF ticks = {} THEN <<>>
  ELSE LET t == CHOOSE x \in ticks : \A y \in ticks : x <= y
       IN  <<TickRec(t, net[t])>> \o AscendingRecs(ticks \ {t}, net)
Reverse(seq) == [i \in 1..Len(seq) |-> seq[Len(seq) + 1 - i]]
WordAnswer(w, spacing, net, descending) ==
  LET asc == AscendingRecs(WordTicks(w, spacing) \cap DOMAIN net, net)
  IN  IF descending THEN Reverse(asc) ELSE asc

\* the words of the five-word fetch, as a set
ChartWords(ct, spacing) ==
  {wordIndices(ct, spacing, 2)[i] : i \in 1..5}

ChartInit ==
  /\ tick = Fin(0) /\ price = Zero /\ decimals0 = 18 /\ decimals1 = 6
  /\ fn = "none" /\ out = Null
  /\ DisplayIdle
  /\ SwapIdle
  /\ LiqIdle
  /\ PoolIdle
  /\ tickSpacing \in {60}
  /\ currentTick \in ChartCurrentTicks
  /\ \E S \in SUBSET (UNION {WordTicks(w, tickSpacing) :
                               w \in ChartWords(currentTick, tickSpacing)}) :
       /\ Cardinality(S) <= MaxTicks
       /\ \E net \in [S -> NetValues], descending \in BOOLEAN :
            chainTicks = [w \in ChartWords(currentTick, tickSpacing) |->
                            WordAnswer(w, tickSpacing, net, descending)]
  /\ tickData = <<>>
  /\ isLoading = TRUE
  /\ error = FALSE

\* fetchTickData with span words on each side, run by the effect on mount:
\* every word's read either answers or throws (caught per word, the word is
\* skipped); the ticks read are sorted and stored
fetchTickData(span, failed) ==
  /\ isLoading
  /\ tickData' = SortByTick(collectTicks(chainTicks,
                      wordIndices(currentTick, tickSpacing, span), failed))
  /\ isLoading' = FALSE
  /\ error' = FALSE
  /\ UNCHANGED <<chainTicks, currentTick, notChart>>

\* src/unnamed/part_006: three words
FetchTickData3 ==
  \E failed \in SUBSET ChartWords(currentTick, tickSpacing) :
    fetchTickData(1, failed)
\* src/src/components/LiquidityDepthChart.tsx: five words
FetchTickData5 ==
  \E failed \in SUBSET ChartWords(currentTick, tickSpacing) :
    fetchTickData(2, failed)

ChartNext ==
  \/ FetchTickData3
  \/ FetchTickData5

SpecChart == ChartInit /\ [][ChartNext]_vars

(***************************************************************************)
(* Price display: getDisplayPriceBounds (math.ts), PositionCard (Pool.tsx) *)
(* and the bars of the depth chart (part_006)                              *)
(***************************************************************************)
\* const isReasonable = (p) => Number.isFinite(p) && p >= 0.001 && p <= 100000
isReasonable(p) ==
  /\ p.k = "pos"
  /\ p.lg >= -3 * LOG10_TICKS * SubTick
  /\ p.lg <= 5 * LOG10_TICKS * SubTick

\* isFullRange of getDisplayPriceBounds
displayIsFullRange(tickLower, tickUpper) ==
  tickLower <= MIN_TICK + 1000 \/ tickUpper >= MAX_TICK - 1000

\* getDisplayPriceBounds; priceLower and priceUpper are the prices handed to
\* formatPrice ('0' and the infinity sign for a full range)
getDisplayPriceBounds(tickLower, tickUpper, d0, d1) ==
  IF displayIsFullRange(tickLower, tickUpper)
  THEN [priceLower |-> Zero, priceUpper |-> Infinity,
        isFullRange |-> TRUE, needsInversion |-> FALSE]
  ELSE LET rawPriceLower == Pow10001(tickLower)
           rawPriceUpper == Pow10001(tickUpper)
           normalLower == TimesPow10(rawPriceLower, d0 - d1)
           normalUpper == TimesPow10(rawPriceUpper, d0 - d1)
           invertedLower == TimesPow10(rawPriceLower, d1 - d0)
           invertedUpper == TimesPow10(rawPriceUpper, d1 - d0)
           normalOk == isReasonable(normalLower) /\ isReasonable(normalUpper)
           invertedOk == isReasonable(invertedLower) /\ isReasonable(invertedUpper)
       IN  IF normalOk
           THEN [priceLower |-> normalLower, priceUpper |-> normalUpper,
                 isFullRange |-> FALSE, needsInversion |-> FALSE]
           ELSE IF invertedOk
           THEN [priceLower |-> invertedLower, priceUpper |-> invertedUpper,
                 isFullRange |-> FALSE, needsInversion |-> TRUE]
           ELSE [priceLower |-> normalLower, priceUpper |-> normalUpper,
                 isFullRange |-> FALSE, needsInversion |-> FALSE]

\* the ticks for which getDisplayPriceBounds evaluates Math.pow(1.0001, tick)
getDisplayPriceBoundsPow(tickLower, tickUpper) ==
  IF displayIsFullRange(tickLower, tickUpper) THEN {} ELSE {tickLower, tickUpper}

\* Pool.tsx: const currentTick = fixedSlot0 ? Number(fixedSlot0[1]) : null;
\* the ticks for which currentPriceFromTick evaluates Math.pow(1.0001, tick)
currentPriceFromTickPow(slot0) == IF ~slot0.loaded THEN {} ELSE {slot0.tick}

\* ticks of positions of the 0.3% pool: usable ticks (multiples of 60) at the
\* ends of the protocol range, of the full-range detection, of the safe
\* window, and around 0
PositionTicks ==
  {-887220, -886200, -600000, -500040, -499980, -60, 0,
   60, 499980, 500040, 600000, 886200, 887220}

\* the pool's current tick, when slot0 has been read
Slot0Ticks == {MIN_TICK, -600000, SAFE_TICK_LOWER, 0, SAFE_TICK_UPPER,
               SAFE_TICK_UPPER + 1, MAX_TICK - 1}

DisplayInit ==
  /\ MathIdle
  /\ ChartIdle
  /\ SwapIdle
  /\ LiqIdle
  /\ PoolIdle
  /\ position \in {r \in [tickLower : PositionTicks, tickUpper : PositionTicks] :
                     r.tickLower < r.tickUpper}
  /\ fixedSlot0 \in {[loaded |-> FALSE, tick |-> 0]}
                      \cup {[loaded |-> TRUE, tick |-> t] : t \in Slot0Ticks}
  /\ view = "none"
  /\ powTicks = {}

\* Pool.tsx, PositionCard: getDisplayPriceBounds of the position, and the
\* current price from the pool's tick
RenderPositionCard ==
  /\ view' = "PositionCard"
  /\ powTicks' = getDisplayPriceBoundsPow(position.tickLower, position.tickUpper)
                   \cup currentPriceFromTickPow(fixedSlot0)
  /\ UNCHANGED <<position, fixedSlot0, notDisplay>>

\* part_006, liquidityBars of a pool whose slot0 is read: a bar for an
\* initialized tick of the bitmap word of the current tick
RenderLiquidityBars ==
  /\ fixedSlot0.loaded
  /\ \E t \in WordTicks(currentWordIndex(fixedSlot0.tick, tickSpacing), tickSpacing),
        net \in NetValues :
       /\ t >= MIN_TICK /\ t <= MAX_TICK
       /\ powTicks' = liquidityBarsPow(<<TickRec(t, net)>>)
  /\ view' = "LiquidityDepthChart"
  /\ UNCHANGED <<position, fixedSlot0, notDisplay>>

\* math.ts, tickToPrice of the pool's tick
RenderTickToPrice ==
  /\ fixedSlot0.loaded
  /\ view' = "tickToPrice"
  /\ powTicks' = tickToPricePow(fixedSlot0.tick)
  /\ UNCHANGED <<position, fixedSlot0, notDisplay>>

DisplayNext ==
  \/ RenderPositionCard
  \/ RenderLiquidityBars
  \/ RenderTickToPrice

SpecDisplay == DisplayInit /\ [][DisplayNext]_vars

(***************************************************************************)
(* Swap (part_006).  An amount string is modelled by the number of whole   *)
(* tokens it denotes and '' by Empty; parseUnits and formatUnits are exact *)
(* on such strings.  The wallet stays connected or disconnected.           *)
(***************************************************************************)
\* largest amount the user types
MaxAmount == 1
\* most quote requests in flight at once
MaxInFlight == 1

\* the amounts the pool can quote: a larger output exceeds its liquidity
AmountCap == MaxAmount + 1
\* fee: 500 in getQuote and handleSwap
SWAP_FEE == 500
\* [NATIVE_ATN, ...DEFAULT_TOKENS] of TokenSelectModal with includeNative
SwapTokens == {"ATN", "WATN", "USDC.pol"}
QuoteErrorMessage == "Unable to get quote. Pool may not exist or have liquidity."

isNativeCurrency(token) == token = "ATN"
\* DEFAULT_TOKENS.find(t => t.symbol === 'WATN') for the native currency
wrapped(token) == IF isNativeCurrency(token) THEN "WATN" ELSE token
\* address equality of handleTokenSelect: the three tokens have three addresses
sameAddress(a, b) == a = b

isWrap == isNativeCurrency(tokenIn) /\ tokenOut = "WATN"
isUnwrap == tokenIn = "WATN" /\ isNativeCurrency(tokenOut)
isWrapOrUnwrap == isWrap \/ isUnwrap

\* !amountIn || parseFloat(amountIn) === 0
noAmount(a) == a = Empty \/ a = 0

\* the result of quoteExactInputSingle on the WATN/USDC pool: 2 USDC a WATN
quotedAmountOut(req) ==
  IF req.tokenIn = "WATN" THEN 2 * req.amountIn ELSE req.amountIn \div 2

\* balances of the connected account; undefined without an account
inputBalance == IF ~isConnected THEN Empty
                ELSE IF isNativeCurrency(tokenIn) THEN 1 ELSE AmountCap

isWriting == write.status = "pending"
isConfirming == write.status = "confirming"

needsApproval ==
  IF isNativeCurrency(tokenIn) THEN FALSE
  ELSE IF noAmount(amountIn) THEN FALSE
  ELSE allowance[tokenIn] < amountIn

isButtonDisabled ==
  \/ ~isConnected
  \/ isWriting \/ isConfirming
  \/ noAmount(amountIn)
  \/ quoteError # NoQuoteError
  \/ (inputBalance # Empty /\ amountIn > inputBalance)

\* the only error element of the form: {quoteError && <div className="swap-error">}
swapErrorShown == quoteError # NoQuoteError

SwapInit ==
  /\ MathIdle /\ ChartIdle /\ DisplayIdle /\ LiqIdle /\ PoolIdle
  /\ isConnected \in BOOLEAN
  /\ tokenIn = "ATN" /\ tokenOut = "USDC.pol"
  /\ amountIn = Empty /\ amountOut = Empty
  /\ isQuoting = FALSE /\ quoteError = NoQuoteError
  /\ timerPending = TRUE
  /\ quoteRequests = EmptyBag
  /\ write = NoWrite
  /\ allowance = [t \in {"WATN", "USDC.pol"} |-> 0]
  /\ quoteFailed = FALSE

\* onAmountChange={setAmountIn}; the effect on [getQuote] restarts the timer
SetAmountIn ==
  /\ \E a \in {Empty} \cup 0..MaxAmount :
       /\ a # amountIn
       /\ amountIn' = a
  /\ timerPending' = TRUE
  /\ UNCHANGED <<isConnected, tokenIn, tokenOut, amountOut, isQuoting,
                 quoteError, quoteRequests, write, allowance, quoteFailed,
                 notSwap>>

\* the state after handleSwapTokens
swapTokensState ==
  /\ tokenIn' = tokenOut
  /\ tokenOut' = tokenIn
  /\ amountIn' = amountOut
  /\ amountOut' = amountIn
  /\ timerPending' = TRUE

HandleSwapTokens ==
  /\ swapTokensState
  /\ UNCHANGED <<isConnected, isQuoting, quoteError, quoteRequests, write,
                 allowance, quoteFailed, notSwap>>

\* handleTokenSelect with selectingToken = 'input' or 'output'
HandleTokenSelect ==
  /\ \E selectingToken \in {"input", "output"}, token \in SwapTokens :
       IF selectingToken = "input"
       THEN IF sameAddress(token, tokenOut)
            THEN swapTokensState
            ELSE /\ tokenIn' = token
                 /\ amountOut' = Empty
                 /\ timerPending' = (timerPending \/ token # tokenIn)
                 /\ UNCHANGED <<tokenOut, amountIn>>
       ELSE IF sameAddress(token, tokenIn)
            THEN swapTokensState
            ELSE /\ tokenOut' = token
                 /\ amountOut' = Empty
                 /\ timerPending' = (timerPending \/ token # tokenOut)
                 /\ UNCHANGED <<tokenIn, amountIn>>
  /\ UNCHANGED <<isConnected, isQuoting, quoteError, quoteRequests, write,
                 allowance, quoteFailed, notSwap>>

\* setTimeout(getQuote, 500) fires: getQuote up to its await
GetQuote ==
  /\ timerPending
  /\ timerPending' = FALSE
  /\ IF noAmount(amountIn)
     THEN /\ amountOut' = Empty
          /\ UNCHANGED <<isQuoting, quoteError, quoteRequests>>
     ELSE IF isWrapOrUnwrap
     THEN /\ amountOut' = amountIn
          /\ quoteError' = NoQuoteError
          /\ UNCHANGED <<isQuoting, quoteRequests>>
     ELSE /\ BagCardinality(quoteRequests) < MaxInFlight
          /\ isQuoting' = TRUE
          /\ quoteError' = NoQuoteError
          /\ quoteRequests' = quoteRequests (+) SetToBag(
                {[tokenIn |-> wrapped(tokenIn), tokenOut |-> wrapped(tokenOut),
                  amountIn |-> amountIn, fee |-> SWAP_FEE]})
          /\ UNCHANGED amountOut
  /\ UNCHANGED <<isConnected, tokenIn, tokenOut, amountIn, write, allowance,
                 quoteFailed, notSwap>>

\* simulateContract resolves: setAmountOut(formatUnits(...)), setIsQuoting(false)
QuoteResolve ==
  /\ \E req \in BagToSet(quoteRequests) :
       /\ quotedAmountOut(req) <= AmountCap
       /\ amountOut' = quotedAmountOut(req)
       /\ quoteRequests' = quoteRequests (-) SetToBag({req})
  /\ isQuoting' = FALSE
  /\ quoteFailed' = FALSE
  /\ UNCHANGED <<isConnected, tokenIn, tokenOut, amountIn, quoteError,
                 timerPending, write, allowance, notSwap>>

\* simulateContract rejects: the catch and the finally of getQuote
QuoteReject ==
  /\ \E req \in BagToSet(quoteRequests) :
       quoteRequests' = quoteRequests (-) SetToBag({req})
  /\ quoteError' = QuoteErrorMessage
  /\ amountOut' = Empty
  /\ isQuoting' = FALSE
  /\ quoteFailed' = TRUE
  /\ UNCHANGED <<isConnected, tokenIn, tokenOut, amountIn, timerPending,
                 write, allowance, notSwap>>

\* handleApprove: writeContract approve(swapRouter02, amountInWei * 2n)
handleApprove ==
  /\ isConnected
  /\ write' = [NoWrite EXCEPT !.status = "pending", !.functionName = "approve",
                              !.tokenIn = tokenIn, !.amountIn = 2 * amountIn]

\* the exactInputSingle parameters of handleSwap; amountOut is the amount
\* that applySlippage turns into amountOutMinimum
swapParams(functionName, value) ==
  [status |-> "pending", functionName |-> functionName,
   tokenIn |-> wrapped(tokenIn), tokenOut |-> wrapped(tokenOut),
   fee |-> SWAP_FEE, amountIn |-> amountIn, amountOut |-> amountOut,
   value |-> value]

\* handleSwap past its guard !address || !amountIn || !amountOut
handleSwap ==
  /\ isConnected /\ amountIn # Empty /\ amountOut # Empty
  /\ write' =
       IF isWrap
       THEN [NoWrite EXCEPT !.status = "pending", !.functionName = "deposit",
                            !.value = amountIn]
       ELSE IF isUnwrap
       THEN [NoWrite EXCEPT !.status = "pending", !.functionName = "withdraw",
                            !.amountIn = amountIn]
       ELSE IF isNativeCurrency(tokenIn)
       THEN swapParams("multicall", amountIn)
       ELSE swapParams("exactInputSingle", 0)

\* onClick={handleButtonClick} of the enabled swap button
HandleButtonClick ==
  /\ ~isButtonDisabled
  /\ IF needsApproval THEN handleApprove ELSE handleSwap
  /\ UNCHANGED <<isConnected, swapForm, timerPending, quoteRequests,
                 allowance, quoteFailed, notSwap>>

\* the wallet rejects the request: isPending false, the hook's error is set
\* and read by nobody
WriteRejected ==
  /\ isWriting
  /\ write' = [NoWrite EXCEPT !.status = "error"]
  /\ UNCHANGED <<isConnected, swapForm, timerPending, quoteRequests,
                 allowance, quoteFailed, notSwap>>

\* the wallet returns the transaction hash: useWaitForTransactionReceipt
\* loads; of the transaction the form reads back the allowance it sets
WriteSent ==
  /\ isWriting
  /\ write' = IF write.functionName = "approve"
              THEN [write EXCEPT !.status = "confirming"]
              ELSE [NoWrite EXCEPT !.status = "confirming",
                                   !.functionName = write.functionName]
  /\ UNCHANGED <<isConnected, swapForm, timerPending, quoteRequests,
                 allowance, quoteFailed, notSwap>>

\* the transaction reverts: isLoading false, isSuccess false
TxReverted ==
  /\ isConfirming
  /\ write' = [NoWrite EXCEPT !.status = "error"]
  /\ UNCHANGED <<isConnected, swapForm, timerPending, quoteRequests,
                 allowance, quoteFailed, notSwap>>

\* isConfirmed: the reset effect, with refetchAllowance reading the chain;
\* an allowance is compared with amounts up to AmountCap only, and is kept
\* up to that amount
TxConfirmed ==
  /\ isConfirming
  /\ amountIn' = Empty
  /\ amountOut' = Empty
  /\ timerPending' = (timerPending \/ amountIn # Empty)
  /\ write' = NoWrite
  /\ allowance' = IF write.functionName = "approve"
                  THEN [allowance EXCEPT
                          ![write.tokenIn] = Min2(write.amountIn, AmountCap)]
                  ELSE allowance
  /\ UNCHANGED <<isConnected, tokenIn, tokenOut, isQuoting, quoteError,
                 quoteRequests, quoteFailed, notSwap>>

SwapNext ==
  \/ SetAmountIn
  \/ HandleSwapTokens
  \/ HandleTokenSelect
  \/ GetQuote
  \/ QuoteResolve
  \/ QuoteReject
  \/ HandleButtonClick
  \/ WriteRejected
  \/ WriteSent
  \/ TxReverted
  \/ TxConfirmed

SpecSwap == SwapInit /\ [][SwapNext]_vars

(***************************************************************************)
(* AddLiquidity (part_005) for the WATN / USDC.pol pair.  A price string   *)
(* is modelled by the number parseFloat reads from it: EmptyPrice for '',  *)
(* NotANumber for any other text without a leading number.  Every pool has *)
(* the same current tick; a read of an existing pool is loaded.  While a   *)
(* write is pending or confirming ('Confirming...') the form gets no input.*)
(***************************************************************************)
NotANumber == [k |-> "nan", lg |-> 0]

\* FEE_TIERS
FEE_TIERS == {[fee |-> 100, tickSpacing |-> 1], [fee |-> 500, tickSpacing |-> 10],
              [fee |-> 3000, tickSpacing |-> 60],
              [fee |-> 10000, tickSpacing |-> 200]}
\* POOLS.WATN_USDC.fee
KNOWN_POOL_FEE == 3000
\* TOKENS: WATN has 18 decimals, USDC.pol 6
tokenDecimals(token) == IF token = "WATN" THEN 18 ELSE 6
\* a.address.toLowerCase() < b.address.toLowerCase(): WATN is 0x08..., USDC.pol 0xa1...
addressLess(a, b) == a = "WATN" /\ b = "USDC.pol"

isManaging == existingPosition # NoPosition
isFixedPool == ~isManaging /\ fixedPool

\* sortTokens(tokenA, tokenB)
token0 == IF addressLess(tokenA, tokenB) THEN tokenA ELSE tokenB
token1 == IF addressLess(tokenA, tokenB) THEN tokenB ELSE tokenA
isToken0First == token0 = tokenA

positionLiquidity == IF ~isManaging THEN 0 ELSE existingPosition.liquidity

liquidityToRemove ==
  IF ~isManaging THEN 0
  ELSE IF positionLiquidity <= 0 THEN 0
  ELSE IF removePercent <= 0 THEN 0
  ELSE (positionLiquidity * Max2(0, Min2(100, removePercent))) \div 100

isKnownPool ==
  /\ selectedFee = KNOWN_POOL_FEE
  /\ {token0, token1} = {"WATN", "USDC.pol"}

\* Boolean(poolAddress): the fixed pool, the factory's answer, or the known pool
poolExists == fixedPool \/ selectedFee \in factoryPools \/ isKnownPool

\* tickSpacingRaw of an existing pool is the spacing of its fee tier
liqTickSpacing ==
  IF \E t \in FEE_TIERS : t.fee = selectedFee
  THEN (CHOOSE t \in FEE_TIERS : t.fee = selectedFee).tickSpacing
  ELSE 60

\* slot0 is read only when poolExists; sqrtPriceX96ToPrice of a pool at the
\* start of its current tick
currentPrice ==
  IF ~poolExists THEN Null
  ELSE TimesPow10(Pow10001(slot0Tick),
                  tokenDecimals(token0) - tokenDecimals(token1))
\* const currentTick = slot0 ? Number(slot0[1]) : 0
liqCurrentTick == IF poolExists THEN slot0Tick ELSE 0

\* parseFloat(minPrice) || 0
parseFloatOr0(s) == IF s.k \in {"empty", "nan", "zero"} THEN Zero ELSE s
\* parseFloat(maxPrice) || Infinity
parseFloatOrInfinity(s) == IF s.k \in {"empty", "nan", "zero"} THEN Infinity ELSE s

\* p <= 0 for a number that is not NaN
lessOrEqualZero(p) == p.k \in {"zero", "neg"}
\* a >= b for positive numbers
greaterOrEqual(a, b) ==
  \/ a.k = "inf"
  \/ (a.k = "pos" /\ b.k = "pos" /\ a.lg >= b.lg)

invalidPricesNoOrder(priceLower, priceUpper) ==
  \/ lessOrEqualZero(priceLower)
  \/ lessOrEqualZero(priceUpper)
\* priceLower <= 0 || priceUpper <= 0 || priceLower >= priceUpper
invalidPrices(priceLower, priceUpper) ==
  \/ lessOrEqualZero(priceLower)
  \/ lessOrEqualZero(priceUpper)
  \/ greaterOrEqual(priceLower, priceUpper)

liqTicksFlagFirst ==
  IF isFullRange
  THEN [tickLower |-> nearestUsableTick(Fin(MIN_TICK), liqTickSpacing),
        tickUpper |-> nearestUsableTick(Fin(MAX_TICK), liqTickSpacing)]
  ELSE IF existingPosition # NoPosition
  THEN [tickLower |-> existingPosition.tickLower,
        tickUpper |-> existingPosition.tickUpper]
  ELSE [tickLower |-> 0, tickUpper |-> 0]
\* the useMemo of tickLower and tickUpper
liqTicks ==
  IF existingPosition # NoPosition
  THEN [tickLower |-> existingPosition.tickLower,
        tickUpper |-> existingPosition.tickUpper]
  ELSE IF isFullRange
  THEN [tickLower |-> nearestUsableTick(Fin(MIN_TICK), liqTickSpacing),
        tickUpper |-> nearestUsableTick(Fin(MAX_TICK), liqTickSpacing)]
  ELSE LET priceLower == parseFloatOr0(minPrice)
           priceUpper == parseFloatOrInfinity(maxPrice)
       IN  IF invalidPrices(priceLower, priceUpper)
           THEN [tickLower |-> 0, tickUpper |-> 0]
           ELSE [tickLower |-> nearestUsableTick(
                    priceToTick(priceLower, tokenDecimals(token0),
                                tokenDecimals(token1)), liqTickSpacing),
                 tickUpper |-> nearestUsableTick(
                    priceToTick(priceUpper, tokenDecimals(token0),
                                tokenDecimals(token1)), liqTickSpacing)]
tickLower == liqTicks.tickLower
tickUpper == liqTicks.tickUpper

positionType ==
  IF currentPrice = Null \/ tickLower >= tickUpper THEN "invalid"
  ELSE IF isFullRange THEN "full-range"
  ELSE IF liqCurrentTick < tickLower THEN "above-range"
  ELSE IF liqCurrentTick >= tickUpper THEN "below-range"
  ELSE "in-range"

needsApprovalA == IF noAmount(amountA) THEN FALSE
                  ELSE liqAllowance[tokenA] < amountA
needsApprovalB == IF noAmount(amountB) THEN FALSE
                  ELSE liqAllowance[tokenB] < amountB

liqIsWriting == liqWrite.status = "pending"
liqIsConfirming == liqWrite.status = "confirming"

\* disabled= of the add-liquidity button
liqButtonDisabled ==
  \/ liqIsWriting \/ liqIsConfirming
  \/ (~isManaging /\ positionType = "invalid" /\ ~isFullRange)
  \/ (isManaging /\ manageTab = "remove"
        /\ (positionLiquidity <= 0 \/ liquidityToRemove <= 0))

\* disabled= of the amount inputs of tokenA and tokenB
amountDisabled(token) ==
  \/ (positionType = "below-range" /\ token = token0)
  \/ (positionType = "above-range" /\ token = token1)

\* log_1.0001 of the factors 0.5 and 1.5 of the default range
LOG_0_5_TICKS == -6932
LOG_1_5_TICKS == 4055

\* formatPrice and parseFloat of its result: toExponential(2) keeps three
\* digits, of the grouped toLocaleString parseFloat reads the thousands, and
\* toFixed / toExponential(4) keep the price within a tick
formatPrice(p) ==
  CASE p.k = "zero" -> Zero
    [] p.k = "inf" -> NotANumber
    [] p.k = "pos" ->
         LET ten == LOG10_TICKS * SubTick
         IN  IF p.lg >= 6 * ten
             THEN Pos(50 * SubTick * MathRound(p.lg, 50 * SubTick))
             ELSE IF p.lg >= 3 * ten
             THEN Pos(SubTick * MathRound(p.lg - 3 * ten, SubTick))
             ELSE Pos(SubTick * MathRound(p.lg, SubTick))

\* currentPrice * factor for a factor 1.0001^logTicks
timesFactor(p, logTicks) ==
  IF p.k = "pos" THEN Normalize(p.lg + logTicks * SubTick) ELSE p

\* the ticks of the pools' slot0, around the price 1 USDC.pol per WATN
LiqCurrentTicks == {-276400, -276324, -276200}
\* the prices a user types: '', 0, a negative number, and the prices of the
\* raw ticks -276360, -276331 (which rounds to -276360 at spacing 60) and
\* -276240
priceOfRawTick(t) == Pos((t + 12 * LOG10_TICKS) * SubTick)
MinPriceInputs ==
  {EmptyPrice, Zero, Negative, priceOfRawTick(-276360), priceOfRawTick(-276240)}
MaxPriceInputs ==
  {EmptyPrice, Zero, priceOfRawTick(-276331), priceOfRawTick(-276240)}
\* the amounts a user types: '', '0' and '1'
LiqAmounts == {Empty, 0, 1}
\* the open and closed positions of the account in the 0.3% pool: a narrow
\* range, the full range, and a range open to the top only
Positions ==
  {[tokenId |-> 7, fee |-> 3000, tickLower |-> l, tickUpper |-> u, liquidity |-> q] :
     l \in {-276360}, u \in {-276240}, q \in {0, 1, 10}}
    \cup {[tokenId |-> 8, fee |-> 3000, tickLower |-> -887220,
           tickUpper |-> 887220, liquidity |-> 10],
          [tokenId |-> 9, fee |-> 3000, tickLower |-> -276240,
           tickUpper |-> 887220, liquidity |-> 10]}
\* the values of the percent field and of its buttons
RemovePercents == {0, 25, 50, 100, 150}

\* the form after the mount effects, the reads of the pool being loaded
LiqInit ==
  /\ MathIdle /\ ChartIdle /\ DisplayIdle /\ SwapIdle /\ PoolIdle
  /\ address \in BOOLEAN
  /\ existingPosition \in {NoPosition} \cup Positions
  /\ fixedPool \in IF existingPosition = NoPosition THEN BOOLEAN ELSE {FALSE}
  /\ factoryPools = IF fixedPool THEN {} ELSE {500}
  /\ slot0Tick \in LiqCurrentTicks
  /\ tokenA = "WATN" /\ tokenB = "USDC.pol"
  /\ amountA = Empty /\ amountB = Empty
  /\ selectedFee = 3000
  /\ manageTab = "increase" /\ removePercent = 50
  /\ liqWrite = NoLiqWrite
  /\ liqAllowance = [t \in {"WATN", "USDC.pol"} |-> 0]
  /\ IF existingPosition # NoPosition
     THEN LET bounds == getDisplayPriceBounds(existingPosition.tickLower,
                                              existingPosition.tickUpper, 18, 6)
          IN  /\ minPrice = formatPrice(bounds.priceLower)
              /\ maxPrice = formatPrice(bounds.priceUpper)
              /\ isFullRange = bounds.isFullRange
     ELSE LET current == TimesPow10(Pow10001(slot0Tick), 12)
          IN  /\ minPrice = formatPrice(timesFactor(current, LOG_0_5_TICKS))
              /\ maxPrice = formatPrice(timesFactor(current, LOG_1_5_TICKS))
              /\ isFullRange = FALSE

\* onAmountChange={setAmountA} of an enabled input
SetAmountA ==
  /\ ~liqIsWriting /\ ~liqIsConfirming
  /\ ~isManaging \/ manageTab = "increase"
  /\ ~amountDisabled(tokenA)
  /\ \E a \in LiqAmounts : a # amountA /\ amountA' = a
  /\ UNCHANGED <<liqProps, tokenA, tokenB, amountB, selectedFee, minPrice,
                 maxPrice, isFullRange, manageTab, removePercent, liqWrite,
                 liqAllowance, notLiq>>

SetAmountB ==
  /\ ~liqIsWriting /\ ~liqIsConfirming
  /\ ~isManaging \/ manageTab = "increase"
  /\ ~amountDisabled(tokenB)
  /\ \E a \in LiqAmounts : a # amountB /\ amountB' = a
  /\ UNCHANGED <<liqProps, tokenA, tokenB, amountA, selectedFee, minPrice,
                 maxPrice, isFullRange, manageTab, removePercent, liqWrite,
                 liqAllowance, notLiq>>

\* handleTokenSelect for every token of DEFAULT_TOKENS; the modal is open only
\* without a position and a fixed pool
LiqHandleTokenSelect ==
  /\ ~liqIsWriting /\ ~liqIsConfirming
  /\ ~isManaging /\ ~isFixedPool
  /\ \E selectingToken \in {"A", "B"}, token \in {"WATN", "USDC.pol"} :
       IF selectingToken = "A"
       THEN IF token = tokenB
            THEN tokenA' = tokenB /\ tokenB' = tokenA
            ELSE tokenA' = token /\ tokenB' = tokenB
       ELSE IF token = tokenA
            THEN tokenA' = tokenB /\ tokenB' = tokenA
            ELSE tokenB' = token /\ tokenA' = tokenA
  /\ UNCHANGED <<liqProps, amountA, amountB, selectedFee, minPrice, maxPrice,
                 isFullRange, manageTab, removePercent, liqWrite, liqAllowance,
                 notLiq>>

\* onClick={() => setSelectedFee(tier.fee)}, and the effect on [currentPrice]
\* when the slot0 of the newly selected pool arrives
SelectFee ==
  /\ ~liqIsWriting /\ ~liqIsConfirming
  /\ ~isManaging /\ ~isFixedPool
  /\ \E tier \in FEE_TIERS :
       /\ tier.fee # selectedFee
       /\ selectedFee' = tier.fee
  /\ UNCHANGED <<liqProps, tokenA, tokenB, amountA, amountB, isFullRange,
                 manageTab, removePercent, liqWrite, liqAllowance, notLiq>>
  /\ IF currentPrice = Null /\ currentPrice' # Null
          /\ minPrice = EmptyPrice /\ maxPrice = EmptyPrice
     THEN /\ minPrice' = formatPrice(timesFactor(currentPrice', LOG_0_5_TICKS))
          /\ maxPrice' = formatPrice(timesFactor(currentPrice', LOG_1_5_TICKS))
     ELSE UNCHANGED <<minPrice, maxPrice>>

\* onChange={e => setMinPrice(e.target.value)}
SetMinPrice ==
  /\ ~liqIsWriting /\ ~liqIsConfirming
  /\ ~isManaging /\ ~isFullRange
  /\ \E p \in MinPriceInputs : p # minPrice /\ minPrice' = p
  /\ UNCHANGED <<liqProps, tokenA, tokenB, amountA, amountB, selectedFee,
                 maxPrice, isFullRange, manageTab, removePercent, liqWrite,
                 liqAllowance, notLiq>>

SetMaxPrice ==
  /\ ~liqIsWriting /\ ~liqIsConfirming
  /\ ~isManaging /\ ~isFullRange
  /\ \E p \in MaxPriceInputs : p # maxPrice /\ maxPrice' = p
  /\ UNCHANGED <<liqProps, tokenA, tokenB, amountA, amountB, selectedFee,
                 minPrice, isFullRange, manageTab, removePercent, liqWrite,
                 liqAllowance, notLiq>>

\* onClick={() => setIsFullRange(!isFullRange)}
ToggleFullRange ==
  /\ ~liqIsWriting /\ ~liqIsConfirming
  /\ ~isManaging
  /\ isFullRange' = ~isFullRange
  /\ UNCHANGED <<liqProps, tokenA, tokenB, amountA, amountB, selectedFee,
                 minPrice, maxPrice, manageTab, removePercent, liqWrite,
                 liqAllowance, notLiq>>

SetManageTab ==
  /\ ~liqIsWriting /\ ~liqIsConfirming
  /\ isManaging
  /\ manageTab' = IF manageTab = "increase" THEN "remove" ELSE "increase"
  /\ UNCHANGED <<liqProps, tokenA, tokenB, amountA, amountB, selectedFee,
                 minPrice, maxPrice, isFullRange, removePercent, liqWrite,
                 liqAllowance, notLiq>>

\* the percent field and the 25 / 50 / 75 / 100 buttons
SetRemovePercent ==
  /\ ~liqIsWriting /\ ~liqIsConfirming
  /\ isManaging /\ manageTab = "remove"
  /\ \E pct \in RemovePercents : pct # removePercent /\ removePercent' = pct
  /\ UNCHANGED <<liqProps, tokenA, tokenB, amountA, amountB, selectedFee,
                 minPrice, maxPrice, isFullRange, manageTab, liqWrite,
                 liqAllowance, notLiq>>

\* handleApprove('A' | 'B'): approve(nonfungiblePositionManager, amountWei * 2n)
liqHandleApprove(token, amount) ==
  IF ~address THEN liqWrite
  ELSE [NoLiqWrite EXCEPT !.status = "pending", !.functionName = "approve",
                          !.token = token, !.amount = 2 * amount]

amount0DesiredOfA == Max2(amountA, 0)
\* parseUnits(amountA || '0', ...) and parseUnits(amountB || '0', ...)
amount0Desired ==
  IF isToken0First THEN Max2(amountA, 0) ELSE Max2(amountB, 0)
amount1Desired ==
  IF isToken0First THEN Max2(amountB, 0) ELSE Max2(amountA, 0)

\* the create branch of handleMintPosition: !poolExists && currentPrice
createBranch == ~poolExists /\ currentPrice # Null

handleMintPosition ==
  IF ~address \/ tickLower >= tickUpper THEN liqWrite
  ELSE IF createBranch
  THEN [NoLiqWrite EXCEPT !.status = "pending",
          !.functionName = "createAndInitializePoolIfNecessary",
          !.token0 = token0, !.token1 = token1, !.fee = selectedFee]
  ELSE [NoLiqWrite EXCEPT !.status = "pending", !.functionName = "mint",
          !.token0 = token0, !.token1 = token1, !.fee = selectedFee,
          !.tickLower = tickLower, !.tickUpper = tickUpper,
          !.amount0Desired = amount0Desired,
          !.amount1Desired = amount1Desired, !.recipient = address]

handleIncreaseLiquidity ==
  IF ~address \/ ~isManaging \/ tickLower >= tickUpper THEN liqWrite
  ELSE IF amount0Desired = 0 /\ amount1Desired = 0 THEN liqWrite
  ELSE [NoLiqWrite EXCEPT !.status = "pending",
          !.functionName = "increaseLiquidity",
          !.tokenId = existingPosition.tokenId,
          !.amount0Desired = amount0Desired,
          !.amount1Desired = amount1Desired]

handleRemoveLiquidityCollectFirst ==
  IF ~address \/ ~isManaging THEN liqWrite
  ELSE IF positionLiquidity <= 0 THEN liqWrite
  ELSE IF liquidityToRemove <= 0 THEN liqWrite
  ELSE [NoLiqWrite EXCEPT !.status = "pending", !.functionName = "multicall",
          !.tokenId = existingPosition.tokenId,
          !.liquidity = liquidityToRemove, !.recipient = address,
          !.calls = <<"collect", "decreaseLiquidity">>]
handleRemoveLiquidity ==
  IF ~address \/ ~isManaging THEN liqWrite
  ELSE IF positionLiquidity <= 0 THEN liqWrite
  ELSE IF liquidityToRemove <= 0 THEN liqWrite
  ELSE [NoLiqWrite EXCEPT !.status = "pending", !.functionName = "multicall",
          !.tokenId = existingPosition.tokenId,
          !.liquidity = liquidityToRemove, !.recipient = address,
          !.calls = <<"decreaseLiquidity", "collect">>]

\* onClick={handleButtonClick} of the enabled button
LiqHandleButtonClick ==
  /\ ~liqButtonDisabled
  /\ liqWrite' =
       IF isManaging /\ manageTab = "remove" THEN handleRemoveLiquidity
       ELSE IF needsApprovalA THEN liqHandleApprove(tokenA, amountA)
       ELSE IF needsApprovalB THEN liqHandleApprove(tokenB, amountB)
       ELSE IF isManaging THEN handleIncreaseLiquidity
       ELSE handleMintPosition
  /\ UNCHANGED <<liqProps, liqForm, liqAllowance, notLiq>>

\* the wallet rejects the request: isPending is false again and the hook's
\* error is read by nobody
LiqWriteRejected ==
  /\ liqIsWriting
  /\ liqWrite' = NoLiqWrite
  /\ UNCHANGED <<liqProps, liqForm, liqAllowance, notLiq>>

\* the wallet returns the transaction hash; of the transaction the form reads
\* back the allowance it sets
LiqWriteSent ==
  /\ liqIsWriting
  /\ liqWrite' = IF liqWrite.functionName = "approve"
                 THEN [liqWrite EXCEPT !.status = "confirming"]
                 ELSE [NoLiqWrite EXCEPT !.status = "confirming"]
  /\ UNCHANGED <<liqProps, liqForm, liqAllowance, notLiq>>

\* the transaction reverts: isLoading is false again, isSuccess stays false
LiqTxReverted ==
  /\ liqIsConfirming
  /\ liqWrite' = NoLiqWrite
  /\ UNCHANGED <<liqProps, liqForm, liqAllowance, notLiq>>

\* isConfirmed: the reset effect with refetchAllowanceA and refetchAllowanceB
LiqTxConfirmed ==
  /\ liqIsConfirming
  /\ amountA' = Empty
  /\ amountB' = Empty
  /\ liqWrite' = NoLiqWrite
  /\ liqAllowance' =
       IF liqWrite.functionName = "approve"
       THEN [liqAllowance EXCEPT
               ![liqWrite.token] = liqWrite.amount]
       ELSE liqAllowance
  /\ UNCHANGED <<liqProps, tokenA, tokenB, selectedFee, minPrice, maxPrice,
                 isFullRange, manageTab, removePercent, notLiq>>

LiqNext ==
  \/ SetAmountA
  \/ SetAmountB
  \/ LiqHandleTokenSelect
  \/ SelectFee
  \/ SetMinPrice
  \/ SetMaxPrice
  \/ ToggleFullRange
  \/ SetManageTab
  \/ SetRemovePercent
  \/ LiqHandleButtonClick
  \/ LiqWriteRejected
  \/ LiqWriteSent
  \/ LiqTxReverted
  \/ LiqTxConfirmed

SpecLiq == LiqInit /\ [][LiqNext]_vars

(***************************************************************************)
(* Liquidity (Pool.tsx): the effect on [address, positionCount,            *)
(* publicClient] that fetches the positions of the connected account.      *)
(* Each account holds MaxCount positions of the fixed pool; balanceOf      *)
(* answers with any count up to that, as positions are minted and burnt.   *)
(* A run of fetchPositions reads the chain between its start and its       *)
(* setPositions, which is one step here.                                   *)
(***************************************************************************)
\* most positions of an account
MaxCount == 2
\* most runs of fetchPositions awaiting reads at once
MaxFetches == 2

Accounts == {"0xA", "0xB"}
\* tokenOfOwnerByIndex(owner, i - 1)
tokenOfOwnerByIndex(owner, i) == (IF owner = "0xA" THEN 10 ELSE 20) + i
\* fetchedPositions of a run started for address and count: the loop over
\* i < count
fetchedPositions(owner, count) ==
  [i \in 1..count |-> tokenOfOwnerByIndex(owner, i)]

PoolInit ==
  /\ MathIdle /\ ChartIdle /\ DisplayIdle /\ SwapIdle /\ LiqIdle
  /\ account = NoAccount
  /\ positionCount = NoCount
  /\ positions = <<>>
  /\ positionsLoading = FALSE
  /\ fetches = {}

\* the effect's fetchPositions up to its first await, for the address and
\* positionCount of the render
fetchPositions(addr, count) ==
  IF addr = NoAccount \/ count = NoCount \/ count = 0
  THEN /\ positions' = <<>>
       /\ UNCHANGED <<positionsLoading, fetches>>
  ELSE /\ Cardinality(fetches) < MaxFetches
       /\ positionsLoading' = TRUE
       /\ fetches' = fetches \cup {[address |-> addr, count |-> count]}
       /\ UNCHANGED positions

\* the wallet connects, switches account or disconnects: balanceOf has no
\* data for the new address yet
AccountChanged ==
  /\ \E a \in Accounts \cup {NoAccount} :
       /\ a # account
       /\ account' = a
       /\ positionCount' = NoCount
       /\ fetchPositions(a, NoCount)
  /\ UNCHANGED notPool

\* balanceOf answers, at first or after refetchPositionCount
PositionCountLoaded ==
  /\ account # NoAccount
  /\ \E c \in 0..MaxCount :
       /\ c # positionCount
       /\ positionCount' = c
       /\ fetchPositions(account, c)
  /\ UNCHANGED <<account, notPool>>

\* a run of fetchPositions ends: setPositions(fetchedPositions),
\* setIsLoading(false)
FetchPositionsDone ==
  /\ \E f \in fetches :
       /\ positions' = fetchedPositions(f.address, f.count)
       /\ fetches' = fetches \ {f}
  /\ positionsLoading' = FALSE
  /\ UNCHANGED <<account, positionCount, notPool>>

PoolNext ==
  \/ AccountChanged
  \/ PositionCountLoaded
  \/ FetchPositionsDone

SpecPool == PoolInit /\ [][PoolNext]_vars

(***************************************************************************)
(* Claims on the pure functions of math.ts, under SpecMath                 *)
(***************************************************************************)
\* C1: for every tick (finite, beyond MIN_TICK / MAX_TICK, or infinite) and
\* every fee-tier tick spacing, nearestUsableTick returns an exact multiple
\* of the tick spacing.
C1_MultipleOfSpacing ==
  fn = "nearestUsableTick" => out.n % tickSpacing = 0

\* C2: for every tick, including ticks far outside the protocol range and the
\* infinite ticks, and every tick spacing, nearestUsableTick returns a value
\* between MIN_TICK (-887272) and MAX_TICK (887272).
C2_WithinProtocolBounds ==
  fn = "nearestUsableTick" => (out.n >= -887272 /\ out.n <= 887272)

\* C2's case: an out-of-range tick was clamped to a protocol bound.
C2_Witness ==
  /\ fn = "nearestUsableTick"
  /\ tick \in {PosInfTick, Fin(2 * MAX_TICK)}
  /\ out.n = MAX_TICK

\* C3: for a tick strictly below -500000 or strictly above 500000, and any
\* decimals, tickToPrice returns null and evaluates no power; the boundary
\* ticks -500000 and 500000 are safe and get a price.
C3_UnsafeTickUnavailable ==
  fn = "tickToPrice" =>
    /\ (tick.n < -500000 \/ tick.n > 500000) =>
         (out = Null /\ tickToPricePow(tick.n) = {} /\ ~isTickSafe(tick.n))
    /\ tick.n \in {-500000, 500000} => (isTickSafe(tick.n) /\ out.k = "pos")

\* C3's case: tickToPrice was applied to the first tick above the window.
C3_Witness ==
  fn = "tickToPrice" /\ tick.n = 500001 /\ out = Null

\* C4: a positive finite price p whose tick lies in the safe window comes
\* back from tickToPrice(priceToTick(p)) non-null and within half a tick step
\* of p, and priceToTick(tickToPrice(t)) = t for every safe tick t.
C4_RoundTrip ==
  /\ (fn = "priceRoundTrip"
        /\ isTickSafe(priceToTick(price, decimals0, decimals1).n)) =>
       (out.k = "pos" /\ 2 * Abs(out.lg - price.lg) <= SubTick)
  /\ fn = "tickRoundTrip" => out = tick

\* C4's case: a price strictly between two ticks was rounded to a tick and
\* converted back.
C4_Witness ==
  /\ fn = "priceRoundTrip"
  /\ out.k = "pos"
  /\ out.lg # price.lg
  /\ decimals0 # decimals1

(***************************************************************************)
(* Claims on the liquidity-depth chart, under SpecChart                    *)
(***************************************************************************)
RECURSIVE NetSum(_, _)
NetSum(data, idx) ==
  IF idx = {} THEN 0
  ELSE LET i == CHOOSE x \in idx : TRUE
       IN  data[i].liquidityNet + NetSum(data, idx \ {i})

\* S: the sum of liquidityNet over the fetched ticks at or below tick t
NetAtOrBelow(data, t) == NetSum(data, {i \in DOMAIN data : data[i].tick <= t})

\* C5: the fetched tick data is sorted ascending by tick, and the liquidity
\* recorded for each initialized tick, by liquidityBars and by
\* liquidityByTick, is max(0, S) for S the sum of liquidityNet over all
\* fetched ticks at or below that tick (the running sum is not clamped).
C5_DepthReconstruction ==
  ~isLoading =>
    /\ \A i, j \in DOMAIN tickData : i < j => tickData[i].tick <= tickData[j].tick
    /\ Len(liquidityBars(tickData)) = Len(tickData)
    /\ \A i \in DOMAIN tickData :
         LET S == NetAtOrBelow(tickData, tickData[i].tick)
         IN  /\ liquidityBars(tickData)[i].tick = tickData[i].tick
             /\ liquidityBars(tickData)[i].liquidity = Max2(0, S)
             /\ liquidityByTick(tickData)[tickData[i].tick] = Max2(0, S)

\* C5's case: a negative prefix sum (recorded as 0) reduces the liquidity
\* recorded for a later tick, in data the contract returned unsorted.
C5_Witness ==
  /\ ~isLoading
  /\ \E w \in DOMAIN chainTicks :
       Len(chainTicks[w]) > 1 /\ chainTicks[w][1].tick > chainTicks[w][2].tick
  /\ \E i, j \in DOMAIN tickData :
       /\ i < j
       /\ NetAtOrBelow(tickData, tickData[i].tick) < 0
       /\ liquidityBars(tickData)[i].liquidity = 0
       /\ liquidityBars(tickData)[j].liquidity > 0
       /\ liquidityBars(tickData)[j].liquidity < tickData[j].liquidityNet

(***************************************************************************)
(* Claims on the price display, under SpecDisplay                          *)
(***************************************************************************)
\* C6: bounds checking precedes every price calculation: no render evaluates
\* 1.0001^tick for a tick outside the safe window [-500000, 500000], in
\* tickToPrice, in getDisplayPriceBounds for a position not reported as full
\* range, in the position card's current price and in the depth chart.
C6_PowOnlySafeTicks ==
  \A t \in powTicks : t >= -500000 /\ t <= 500000

(***************************************************************************)
(* Claims on the swap form, under SpecSwap                                 *)
(***************************************************************************)
\* C7: every failed write (rejected in the wallet or reverted) results in a
\* generic error message shown on screen.
C7_FailedWriteShowsError ==
  write.status = "error" => swapErrorShown

\* C8: after a quote request has failed, no swap is submitted until a later
\* quote succeeds.
C8_NoSwapUntilQuoteSucceeds ==
  [][(~isWriting /\ isWriting'
        /\ write'.functionName \in {"exactInputSingle", "multicall"})
       => ~quoteFailed]_vars

(***************************************************************************)
(* Claims on AddLiquidity, under SpecLiq                                   *)
(***************************************************************************)
\* a click submits a mint or a pool creation
submitsMintOrCreate ==
  /\ ~liqIsWriting /\ liqIsWriting'
  /\ liqWrite'.functionName \in {"mint", "createAndInitializePoolIfNecessary"}

\* C9: when the selected pool does not exist, the add-liquidity action
\* submits createAndInitializePoolIfNecessary and does not submit mint.
C9_MissingPoolIsCreated ==
  [][(submitsMintOrCreate /\ ~poolExists)
       => liqWrite'.functionName = "createAndInitializePoolIfNecessary"]_vars

\* the entered min price is empty or non-positive
minPriceEmptyOrNonPositive == minPrice.k \in {"empty", "nan", "zero", "neg"}
\* the entered min price is not below the entered max price
minPriceNotBelowEntered ==
  /\ minPrice.k = "pos"
  /\ \/ maxPrice.k \in {"zero", "neg"}
     \/ (maxPrice.k = "pos" /\ minPrice.lg >= maxPrice.lg)
\* the same, an empty or zero max price being read as unbounded
minPriceNotBelowRead ==
  /\ minPrice.k = "pos"
  /\ \/ maxPrice.k = "neg"
     \/ (maxPrice.k = "pos" /\ minPrice.lg >= maxPrice.lg)
zeroTicksAndInvalid ==
  tickLower = 0 /\ tickUpper = 0 /\ positionType = "invalid"

\* C10 as stated: no mint or pool creation is submitted with tickLower >=
\* tickUpper, and whenever the entered min price is empty, non-positive or
\* not below the max price, both ticks are 0, the position type is 'invalid'
\* and no mint is submitted.
C10_InvalidMinPriceGivesZeroTicks ==
  [][/\ submitsMintOrCreate => tickLower < tickUpper
     /\ (minPriceEmptyOrNonPositive \/ minPriceNotBelowEntered)
          => (zeroTicksAndInvalid /\ ~submitsMintOrCreate)]_vars

\* C10: no mint or pool creation is submitted with tickLower >= tickUpper;
\* when no position is managed and full range is off, and the entered min
\* price is empty, non-positive or not below the max price (an empty or zero
\* max price being read as unbounded), both ticks are 0, the position type is
\* 'invalid' and no mint is submitted.
C10_NoInvertedRangeSubmitted ==
  [][/\ submitsMintOrCreate
          => (tickLower < tickUpper
                /\ (liqWrite'.functionName = "mint"
                      => liqWrite'.tickLower < liqWrite'.tickUpper))
     /\ (~isManaging /\ ~isFullRange
           /\ (minPriceEmptyOrNonPositive \/ minPriceNotBelowRead))
          => (zeroTicksAndInvalid /\ ~submitsMintOrCreate)]_vars

\* an account has entered a min price above the max price, full range off
C10_Witness ==
  /\ address /\ ~isManaging /\ ~isFullRange
  /\ minPrice.k = "pos" /\ maxPrice.k = "pos" /\ minPrice.lg > maxPrice.lg
  /\ tickLower = 0 /\ tickUpper = 0
  /\ positionType = "invalid" /\ liqButtonDisabled

\* a click submits a mint
submitsMint ==
  /\ ~liqIsWriting /\ liqIsWriting'
  /\ liqWrite'.functionName = "mint"
\* parseUnits of the amount entered in the input of a token, '' read as 0
enteredFor(token) ==
  IF token = tokenA THEN (IF amountA = Empty THEN 0 ELSE amountA)
  ELSE (IF amountB = Empty THEN 0 ELSE amountB)

\* C11: every mint uses the pair ordered by ascending address, with
\* amount0Desired the amount entered for token0 and amount1Desired the amount
\* entered for token1, whichever token is displayed as A or B.
C11_MintUsesSortedPair ==
  [][submitsMint
       => /\ addressLess(liqWrite'.token0, liqWrite'.token1)
          /\ {liqWrite'.token0, liqWrite'.token1} = {tokenA, tokenB}
          /\ liqWrite'.amount0Desired = enteredFor(liqWrite'.token0)
          /\ liqWrite'.amount1Desired = enteredFor(liqWrite'.token1)]_vars

\* a mint is pending with token1 displayed as A and different amounts
C11_Witness ==
  /\ liqIsWriting /\ liqWrite.functionName = "mint"
  /\ tokenA = "USDC.pol" /\ tokenB = "WATN"
  /\ liqWrite.token0 = "WATN"
  /\ liqWrite.amount0Desired = 0 /\ liqWrite.amount1Desired = 1

\* the amount inputs are rendered for a range of an existing pool
amountInputsOfValidRange ==
  /\ ~isManaging \/ manageTab = "increase"
  /\ currentPrice # Null
  /\ tickLower < tickUpper

\* C12, read for a valid range of an existing pool: with the current tick
\* below tickLower the input of token1 is disabled and that of token0
\* enabled; with the current tick at or above tickUpper the input of token0
\* is disabled and that of token1 enabled; with tickLower <= currentTick <
\* tickUpper both inputs are enabled.
C12_OneSidedDeposits ==
  amountInputsOfValidRange =>
    /\ liqCurrentTick < tickLower
         => (amountDisabled(token1) /\ ~amountDisabled(token0))
    /\ liqCurrentTick >= tickUpper
         => (amountDisabled(token0) /\ ~amountDisabled(token1))
    /\ (tickLower <= liqCurrentTick /\ liqCurrentTick < tickUpper)
         => (~amountDisabled(token0) /\ ~amountDisabled(token1))

(***************************************************************************)
(* Further claims on Swap, under SpecSwap                                  *)
(***************************************************************************)
\* C13: the fee tier of every quote request (quoteExactInputSingle) and of
\* every submitted swap (exactInputSingle, alone or inside multicall) is the
\* fee tier of the configured WATN/USDC pool, POOLS.WATN_USDC.fee.
C13_SwapUsesConfiguredPoolFee ==
  /\ \A req \in BagToSet(quoteRequests) : req.fee = KNOWN_POOL_FEE
  /\ (isWriting /\ write.functionName \in {"exactInputSingle", "multicall"})
       => write.fee = KNOWN_POOL_FEE

\* the debounce timer has fired and every quote request has completed
quotesSettled == ~timerPending /\ quoteRequests = EmptyBag
\* a click submits a transaction other than an approval
submitsSwapWrite ==
  /\ ~isWriting /\ isWriting'
  /\ write'.functionName # "approve"

\* C14: for ATN -> WATN and WATN -> ATN a non-zero amountIn yields amountOut
\* equal to amountIn once the quote has settled, getQuote issues no quoter
\* request, and the transaction submitted is deposit with value amountIn
\* (wrap) or withdraw(amountIn) (unwrap), never a router swap.
C14_WrapUnwrapOneToOne ==
  [][/\ (isWrapOrUnwrap' /\ ~noAmount(amountIn') /\ quotesSettled')
          => amountOut' = amountIn'
     /\ (isWrapOrUnwrap /\ timerPending /\ ~timerPending')
          => quoteRequests' = quoteRequests
     /\ (isWrap /\ submitsSwapWrite)
          => (write'.functionName = "deposit" /\ write'.value = amountIn)
     /\ (isUnwrap /\ submitsSwapWrite)
          => (write'.functionName = "withdraw"
                /\ write'.amountIn = amountIn)]_vars

(***************************************************************************)
(* Further claims on AddLiquidity, under SpecLiq                           *)
(***************************************************************************)
\* a click submits a transaction
submitsLiqWrite == ~liqIsWriting /\ liqIsWriting'

\* C15: removing liquidity submits one multicall whose calls are, in order,
\* decreaseLiquidity(tokenId, liquidityToRemove) and collect(tokenId,
\* recipient = connected address); nothing is submitted when the position has
\* no liquidity or liquidityToRemove is 0, and no other action submits it.
C15_RemoveIsDecreaseThenCollect ==
  [][/\ (submitsLiqWrite /\ isManaging /\ manageTab = "remove")
          => /\ liqWrite'.functionName = "multicall"
             /\ liqWrite'.calls = <<"decreaseLiquidity", "collect">>
             /\ liqWrite'.tokenId = existingPosition.tokenId
             /\ liqWrite'.liquidity = liquidityToRemove
             /\ liqWrite'.liquidity > 0
             /\ liqWrite'.liquidity <= existingPosition.liquidity
             /\ address /\ liqWrite'.recipient = address
     /\ (submitsLiqWrite /\ liqWrite'.functionName = "multicall")
          => (isManaging /\ manageTab = "remove")
     /\ (isManaging /\ manageTab = "remove"
           /\ (positionLiquidity <= 0 \/ liquidityToRemove <= 0))
          => ~submitsLiqWrite]_vars

\* a quarter of a position of liquidity 10 is being removed: 2 units
C15_Witness ==
  /\ liqIsWriting /\ liqWrite.functionName = "multicall"
  /\ removePercent = 25 /\ liqWrite.liquidity = 2
  /\ liqWrite.calls = <<"decreaseLiquidity", "collect">>

\* C16: while an existing position is managed, tickLower and tickUpper are
\* the position's ticks, whatever the min/max price fields, the full-range
\* flag and the tick spacing are, and no step changes them.
C16_ManagedRangeIsFixed ==
  [][isManaging
       => /\ tickLower = existingPosition.tickLower
          /\ tickUpper = existingPosition.tickUpper
          /\ tickLower' = tickLower /\ tickUpper' = tickUpper]_vars

\* liquidity is being added to a position open to the top only, which the
\* form flags as full range
C16_Witness ==
  /\ isManaging /\ isFullRange
  /\ liqIsWriting /\ liqWrite.functionName = "increaseLiquidity"
  /\ tickLower = -276240 /\ tickUpper = 887220
  /\ tickLower # nearestUsableTick(Fin(MIN_TICK), liqTickSpacing)

(***************************************************************************)
(* Claims on the quote race of Swap, under SpecSwap                        *)
(***************************************************************************)
\* what getQuote gives for the current amountIn, tokenIn and tokenOut
currentQuote ==
  IF isWrapOrUnwrap THEN amountIn
  ELSE quotedAmountOut([tokenIn |-> wrapped(tokenIn),
                        tokenOut |-> wrapped(tokenOut),
                        amountIn |-> amountIn, fee |-> SWAP_FEE])

\* C17: once every quote request has completed and no debounce timer is
\* pending, amountOut is empty or the quote for the current amountIn, tokenIn
\* and tokenOut; and isQuoting is true while a quote request is in flight.
C17_NoStaleQuote ==
  /\ quotesSettled
       => (amountOut = Empty
             \/ (~noAmount(amountIn) /\ amountOut = currentQuote))
  /\ quoteRequests # EmptyBag => isQuoting

(***************************************************************************)
(* Claim on the positions of the Liquidity page, under SpecPool            *)
(***************************************************************************)
\* the positions of the most recent address and positionCount
positionsOfLatest ==
  IF account = NoAccount \/ positionCount = NoCount \/ positionCount = 0
  THEN <<>>
  ELSE fetchedPositions(account, positionCount)

\* C18: once every run of fetchPositions has ended, positions is the list of
\* the most recent address and positionCount, empty when the wallet is
\* disconnected or the count is 0, and isLoading is false.
C18_PositionsOfLatestFetch ==
  fetches = {} => (positions = positionsOfLatest /\ ~positionsLoading)

====
